---- MODULE Spec2Model ----
(***************************************************************************)
(* Model of process_EELS.py: the classes Line (one spectrum), Lines (a     *)
(* collection of spectra) and Mapping (a collection indexed by a pixel     *)
(* grid).                                                                  *)
(*                                                                         *)
(* Numbers.  Energies (x) are integers: the unit is one sample spacing of  *)
(* the energy axis.  Intensities (y) are rationals kept as an integer      *)
(* numerator per sample and one denominator per Line (field den); den = 0  *)
(* stands for the non-finite values numpy produces on a division by zero.  *)
(*                                                                         *)
(* Library code.  UnivariateSpline(x, y, s=0, k=3) is an exact interpolant:*)
(* at a sample position it returns the sample.  Left and right of the      *)
(* sampled range it extrapolates; the model takes the extrapolated value   *)
(* on each side from ExtVals (ext.lo, ext.hi), chosen for every data set   *)
(* that is fitted.  np.linspace(lo, hi, 2000) is coarsened to the integer  *)
(* positions in [lo, hi], so that every position inside the sampled range  *)
(* is a sample position.  PCA is symbolic: the reconstructed centre sample *)
(* of a window is the term [pca |-> window, mean |-> samples].             *)
(*                                                                         *)
(* Objects.  Python objects live in heap, a sequence of Line records; the  *)
(* index of a record is the identity of the object.  A list of Line        *)
(* objects is a sequence of indices.                                       *)
(***************************************************************************)
EXTENDS Integers, Sequences, FiniteSets, TLC

VARIABLES heap, orig, elements, heights, grid, last, prev, steps

vars == <<heap, orig, elements, heights, grid, last, prev, steps>>

(***************************************************************************)
(* Bounds of the model                                                     *)
(***************************************************************************)
MaxLen == 5          \* longest energy axis drawn for a single spectrum
MaxSteps == 2        \* operations per run of the collection
MaxDim == 2          \* largest pixel count per axis of an ingested cube
CollLen == 6         \* length of the energy axis of the collection's lines

k0 == 3              \* degree of the smoothing spline
MinLen == k0 + 1     \* a spline of degree k0 needs more than k0 samples
AxisStarts == {-2, 1}
Vals == {0, 1, 3}
ExtVals == {0, 4}
Exts == [lo : ExtVals, hi : ExtVals]

(***************************************************************************)
(* Helpers: builtin min / max, list comprehension, np.argmax               *)
(***************************************************************************)
Min2(a, b) == IF a <= b THEN a ELSE b

Max2(a, b) == IF a >= b THEN a ELSE b

Range(s) == {s[i] : i \in DOMAIN s}

SetMin(S) == CHOOSE m \in S : \A v \in S : m <= v

SetMax(S) == CHOOSE m \in S : \A v \in S : m >= v

\* [s[i] for i in range(len(s)) if keep[i]]
RECURSIVE Filter(_, _)
Filter(s, keep) ==
    IF s = <<>> THEN <<>>
    ELSE LET rest == Filter(Tail(s), Tail(keep))
         IN  IF Head(keep) THEN <<Head(s)>> \o rest ELSE rest

\* np.argmax of the values v over the positions DOMAIN v (scanned in increasing
\* order): the first maximum
ArgMaxFirst(v) ==
    CHOOSE p \in DOMAIN v : \A q \in DOMAIN v : v[q] < v[p] \/ (v[q] = v[p] /\ p <= q)

(***************************************************************************)
(* class Line                                                              *)
(***************************************************************************)
NoHeight == [n |-> 0, d |-> 1]

\* Line.__init__: data and name are deep-copied, height starts at 0
Line(data, name) ==
    [data |-> data, den |-> 1, name |-> name, height |-> NoHeight]

\* Line.slice_data: the samples whose x lies in [min(xrange), max(xrange)]
Line_slice_data(l, xrange) ==
    LET lo == Min2(xrange[1], xrange[2])
        hi == Max2(xrange[1], xrange[2])
        x == l.data[1]
        keep == [i \in DOMAIN x |-> x[i] >= lo /\ x[i] <= hi]
    IN  <<Filter(x, keep), Filter(l.data[2], keep)>>

\* Line.spline: the interpolant of data, evaluated at the integer position p
spline(data, ext, p) ==
    IF \A i \in DOMAIN data[1] : p < data[1][i] THEN ext.lo
    ELSE IF \A i \in DOMAIN data[1] : p > data[1][i] THEN ext.hi
    ELSE data[2][CHOOSE i \in DOMAIN data[1] : data[1][i] = p]

\* the spline cannot be fitted: fewer than 4 samples, or non-finite values
SplineFails(l) == Len(l.data[1]) < MinLen \/ l.den = 0

\* Line.get_HWHM raises IndexError when no sample exceeds half the maximum
HWHMFails(l) ==
    LET y == l.data[2]
        half_max2 == SetMax(Range(y))
    IN  y = <<>> \/ ~ \E i \in DOMAIN y : 2 * y[i] > half_max2

\* Line.get_HWHM: span between the first and the last sample above half maximum
Line_get_HWHM(l) ==
    LET x == l.data[1]
        y == l.data[2]
        half_max2 == SetMax(Range(y))
        indx == {i \in DOMAIN y : 2 * y[i] > half_max2}
    IN  x[SetMax(indx)] - x[SetMin(indx)]

\* Line.get_linspace on [lo2 / 2, hi2 / 2]: the integer positions of the range
get_linspace(lo2, hi2) ==
    {p \in ((lo2 \div 2) - 1) .. ((hi2 \div 2) + 1) : 2 * p >= lo2 /\ 2 * p <= hi2}

FindFails(l) == SplineFails(l) \/ HWHMFails(l)

\* Line.find_zlp_max, second pass: the maximum of the spline within 3 half-widths
\* around the coarse position; returns the pair (shift, height)
FineMax(l, ext, shift) ==
    [shift |-> shift, height |-> [n |-> spline(l.data, ext, shift), d |-> l.den]]

FineSearch(l, ext, test_shift, width) ==
    LET x_zlp == get_linspace(2 * test_shift - 3 * width, 2 * test_shift + 3 * width)
    IN  CHOOSE r \in {FineMax(l, ext, shift) :
                         shift \in {ArgMaxFirst([p \in x_zlp |-> spline(l.data, ext, p)])}} : TRUE

\* Line.find_zlp_max, first pass: the maximum of the spline over the sampled range
CoarseSearch(l, ext) ==
    LET x_zlp == get_linspace(2 * SetMin(Range(l.data[1])), 2 * SetMax(Range(l.data[1])))
    IN  ArgMaxFirst([p \in x_zlp |-> spline(l.data, ext, p)])

\* Line.find_zlp_max: returns (shift, height); the caller stores height
Line_find_zlp_max(l, ext) ==
    CHOOSE r \in {FineSearch(l, ext, test_shift, width) :
                     test_shift \in {CoarseSearch(l, ext)},
                     width \in {Line_get_HWHM(l)}} : TRUE

\* Line.align, after find_zlp_max: resample at x + shift, then slice to
\* [min(x), max(x) - shift]
Resample(l, ext, shift) ==
    [l EXCEPT !.data[2] = [i \in DOMAIN l.data[1] |->
                              spline(l.data, ext, l.data[1][i] + shift)]]

AlignBy(l, ext, found) ==
    [l EXCEPT !.data = Line_slice_data(Resample(l, ext, found.shift),
                          <<SetMin(Range(l.data[1])),
                            SetMax(Range(l.data[1])) - found.shift>>),
              !.height = found.height]

\* Line.align
Line_align(l, ext) ==
    CHOOSE r \in {AlignBy(l, ext, found) : found \in {Line_find_zlp_max(l, ext)}} : TRUE

\* no extrapolated value of the spline reaches the result of Line.align: the
\* result is the same whatever the spline returns outside the sampled range
ExtFree(l) == Cardinality({Line_align(l, e) : e \in Exts}) = 1

\* the block size without the step that makes it odd
BlockSize_AsComputed(l, dE) ==
    dE \div (IF l.data[1][2] >= l.data[1][1] THEN l.data[1][2] - l.data[1][1]
             ELSE l.data[1][1] - l.data[1][2])

\* the block size of Line.denoise_LLR: floor(dE / myscale), made odd
BlockSize(l, dE) ==
    LET x == l.data[1]
        myscale == IF x[2] >= x[1] THEN x[2] - x[1] ELSE x[1] - x[2]
        nx == dE \div myscale
    IN  IF nx % 2 = 0 THEN nx + 1 ELSE nx

\* the Python slice s[a : b] for 0 <= a: the end is clipped to len(s)
Slice(s, a, b) == SubSeq(s, a + 1, Min2(b, Len(s)))

\* Line.denoise_LLR raises: no second sample, no spacing, non-finite values,
\* or fewer than one block
DenoiseFails(l, dE) ==
    LET x == l.data[1]
    IN  \/ Len(x) < 2
        \/ x[2] = x[1]
        \/ l.den = 0
        \/ Len(l.data[2]) - BlockSize(l, dE) + 1 < 1

\* Line.denoise_LLR: one block per position, the centre sample of each
\* reconstructed block plus the mean of the first num_block samples
Line_denoise_LLR(l, dE) ==
    LET x == l.data[1]
        y == l.data[2]
        nx == BlockSize(l, dE)
        num_block == Len(y) - nx + 1
        abs(v) == IF v < 0 THEN -v ELSE v
        myblock == [i \in 1 .. num_block |-> [j \in DOMAIN Slice(y, i - 1, i - 1 + nx) |->
                                                  abs(Slice(y, i - 1, i - 1 + nx)[j])]]
        y_mean == Slice(y, 0, num_block)
        mydata == [i \in 1 .. num_block |->
                      [pca |-> myblock[i], centre |-> nx \div 2, mean |-> y_mean]]
    IN  <<Slice(x, nx \div 2, num_block + (nx \div 2)), mydata>>

(***************************************************************************)
(* Objects and lists of objects                                            *)
(***************************************************************************)
\* the members of the list ele, each once, in the order of first occurrence
FirstOcc(ele) == Filter(ele, [i \in DOMAIN ele |-> \A j \in 1 .. (i - 1) : ele[j] # ele[i]])

IndexOf(s, v) == CHOOSE i \in DOMAIN s : s[i] = v

\* deepcopy(ele) of a list of Line objects: one new object per distinct member
\* (the memo of deepcopy keeps two references to one object one object)
DeepCopyObjs(h, ele) == [k \in DOMAIN FirstOcc(ele) |-> h[FirstOcc(ele)[k]]]

DeepCopyIds(h, ele) == [i \in DOMAIN ele |-> Len(h) + IndexOf(FirstOcc(ele), ele[i])]

\* v in lst, for Line objects: Line defines no __eq__, so objects compare by identity
In(v, lst) == \E i \in DOMAIN lst : lst[i] = v

(***************************************************************************)
(* class Lines                                                             *)
(***************************************************************************)
\* Lines.add_lines: append each new line that is not in elements
RECURSIVE Lines_add_lines(_, _)
Lines_add_lines(els, new_lines) ==
    IF new_lines = <<>> THEN els
    ELSE Lines_add_lines(IF In(Head(new_lines), els) THEN els
                         ELSE Append(els, Head(new_lines)),
                         Tail(new_lines))

\* Lines.del_lines: remove each given line from elements while it is in there
RECURSIVE Lines_del_lines(_, _)
Lines_del_lines(els, new_lines) ==
    IF new_lines = <<>> THEN els
    ELSE Lines_del_lines(Filter(els, [i \in DOMAIN els |-> els[i] # Head(new_lines)]),
                         Tail(new_lines))

\* Lines.slice_data: slice the data of the element in every slot, from slot i on
RECURSIVE Lines_slice_data(_, _, _, _)
Lines_slice_data(h, els, xrange, i) ==
    IF i > Len(els) THEN h
    ELSE CHOOSE out \in {Lines_slice_data([h EXCEPT ![els[i]].data = d], els, xrange, i + 1) :
                              d \in {Line_slice_data(h[els[i]], xrange)}} : TRUE

\* Lines.align, first loop from slot i on: align the element, note its height.
\* A raise inside Line.align ends the call with the work done so far.
RECURSIVE AlignLoop(_, _, _, _, _)
AlignLoop(h, hts, els, exts, i) ==
    IF i > Len(els) THEN [heap |-> h, heights |-> hts, status |-> "ok"]
    ELSE IF FindFails(h[els[i]]) THEN [heap |-> h, heights |-> hts, status |-> "raise"]
    ELSE CHOOSE r \in {AlignLoop([h EXCEPT ![els[i]] = e], Append(hts, e.height),
                                  els, exts, i + 1) :
                            e \in {Line_align(h[els[i]], exts[i])}} : TRUE

\* the shifts Line.align finds in Lines.align, slot by slot (0 from a raise on)
RECURSIVE AlignShifts(_, _, _, _)
AlignShifts(h, els, exts, i) ==
    IF i > Len(els) THEN <<>>
    ELSE IF FindFails(h[els[i]]) THEN [j \in 1 .. (Len(els) - i + 1) |-> 0]
    ELSE <<Line_find_zlp_max(h[els[i]], exts[i]).shift>>
         \o AlignShifts([h EXCEPT ![els[i]] = Line_align(h[els[i]], exts[i])],
                        els, exts, i + 1)

\* Lines.align, the common range: [max of the minima, min of the maxima]
CommonRange(h, els) ==
    <<SetMax({SetMin(Range(h[els[i]].data[1])) : i \in DOMAIN els}),
      SetMin({SetMax(Range(h[els[i]].data[1])) : i \in DOMAIN els})>>

\* a Lines.align without its second loop
AlignSlice_NoReslice(r, els) == r

\* Lines.align, second loop: slice every element to the common range
AlignSlice(r, els) ==
    IF r.status = "ok"
    THEN [r EXCEPT !.heap = Lines_slice_data(r.heap, els, CommonRange(r.heap, els), 1)]
    ELSE r

\* Lines.align; max() of the empty list raises when there are no elements
Lines_align(h, hts, els, exts) ==
    IF els = <<>> THEN [heap |-> h, heights |-> hts, status |-> "raise"]
    ELSE CHOOSE out \in {AlignSlice(r, els) : r \in {AlignLoop(h, hts, els, exts, 1)}} : TRUE

\* e.data[1] / e.height on rationals; a zero height leaves non-finite values
Divide(l) ==
    LET d == l.den * l.height.n
    IN  [l EXCEPT !.data[2] = [i \in DOMAIN l.data[2] |->
                                  IF d < 0 THEN -(l.data[2][i] * l.height.d)
                                  ELSE l.data[2][i] * l.height.d],
                  !.den = IF d < 0 THEN -d ELSE d]

\* Lines.normalize: divide the data of the element in every slot by its height
RECURSIVE Lines_normalize(_, _, _)
Lines_normalize(h, els, i) ==
    IF i > Len(els) THEN h
    ELSE CHOOSE out \in {Lines_normalize([h EXCEPT ![els[i]] = e], els, i + 1) :
                              e \in {Divide(h[els[i]])}} : TRUE

\* np.linspace coarsened: n positions from start, step apart
Axis(start, n, step) == [i \in 1 .. n |-> start + (i - 1) * step]

\* Lines.subtract: the list subs; it is bound only when sub holds one line
Subs(sub, els) == IF Len(sub) = 1 THEN [i \in DOMAIN els |-> sub[1]] ELSE <<>>

\* Lines.subtract, one element: the new data of e on the grid of display_range,
\* element and substrate each shifted to its own ZLP and divided by its height
Subtracted(e, s, f1, f0, exte, exts, display_range) ==
    LET lo == Min2(display_range[1], display_range[2])
        hi == Max2(display_range[1], display_range[2])
        x_data == Axis(lo, hi - lo + 1, 1)
    IN  [e EXCEPT !.data = <<x_data,
                             [j \in DOMAIN x_data |->
                                 spline(e.data, exte, x_data[j] + f1.shift) * f0.height.n
                                 - spline(s.data, exts, x_data[j] + f0.shift) * f1.height.n]>>,
                  !.den = f1.height.n * f0.height.n,
                  !.name = e.name \o <<" Subtracted">>,
                  !.height = f1.height]

\* the spline of the substrate of slot i; an element that is its own substrate
\* has one spline
SubExt(els, subs, exts, sexts, i) == IF subs[i] = els[i] THEN exts[i] ELSE sexts[i]

\* Lines.subtract, the loop from slot i on.  subs[i].find_zlp_max() stores the
\* height in the substrate, e.find_zlp_max() stores the height in the element.
RECURSIVE SubtractLoop(_, _, _, _, _, _, _, _)
SubtractLoop(h, els, subs, bound, display_range, exts, sexts, i) ==
    IF i > Len(els) THEN [heap |-> h, status |-> "ok"]
    ELSE IF ~bound \/ FindFails(h[subs[i]]) THEN [heap |-> h, status |-> "raise"]
    ELSE CHOOSE out \in
           {IF FindFails(h1[els[i]]) THEN [heap |-> h1, status |-> "raise"]
            ELSE SubtractLoop(
                   [h1 EXCEPT ![els[i]] =
                       Subtracted(h1[els[i]], h[subs[i]],
                                  Line_find_zlp_max(h1[els[i]], exts[i]), f0,
                                  exts[i], SubExt(els, subs, exts, sexts, i),
                                  display_range)],
                   els, subs, bound, display_range, exts, sexts, i + 1) :
              <<f0, h1>> \in
                 {<<f, [h EXCEPT ![subs[i]].height = f.height]>> :
                     f \in {Line_find_zlp_max(h[subs[i]],
                                              SubExt(els, subs, exts, sexts, i))}}} : TRUE

\* Lines.subtract
Lines_subtract(h, els, sub, display_range, exts, sexts) ==
    IF Len(sub) # Len(els) THEN [heap |-> h, status |-> "error"]
    ELSE SubtractLoop(h, els, Subs(sub, els), Len(sub) = 1, display_range,
                      exts, sexts, 1)

(***************************************************************************)
(* class Mapping(Lines)                                                    *)
(* A numpy array is its shape and its values in row-major order.           *)
(***************************************************************************)
Product(shape) == IF Len(shape) = 0 THEN 1
                  ELSE IF Len(shape) = 1 THEN shape[1]
                  ELSE IF Len(shape) = 2 THEN shape[1] * shape[2]
                  ELSE shape[1] * shape[2] * shape[3]

\* np.reshape(ydata, [shape[0] * shape[1], -1])[i, :], rows counted from 1
ReshapeRow(ydata, i) ==
    LET k == Product(ydata.shape) \div (ydata.shape[1] * ydata.shape[2])
    IN  SubSeq(ydata.flat, (i - 1) * k + 1, i * k)

\* Mapping.set_initial_by_data: data_list, one Line per pixel
DataList(xdata, ydata) ==
    [i \in 1 .. (ydata.shape[1] * ydata.shape[2]) |->
        Line(<<xdata, ReshapeRow(ydata, i)>>, <<>>)]

\* before set_initial_by_data the Mapping has none of its attributes
NoGrid == [unset |-> TRUE]

\* Mapping.coord_to_ind, as an index counted from 0
Mapping_coord_to_ind(pix, select) == select[1] * pix.pixel_num_y + select[2]

\* the attributes Mapping.set_initial_by_data sets
GridOf(xdata, ydata) ==
    [xdata |-> xdata, ydata |-> ydata, pixel_num_x |-> ydata.shape[1],
     pixel_num_y |-> ydata.shape[2], pixel_num_z |-> ydata.shape[3]]

\* a + b on rational vectors, with numpy's broadcasting of a length-1 operand
Broadcasts(a, b) == Len(a.y) = Len(b.y) \/ Len(a.y) = 1 \/ Len(b.y) = 1

VecAdd(a, b) ==
    LET n == IF Len(a.y) = 1 THEN Len(b.y) ELSE Len(a.y)
    IN  [y |-> [i \in 1 .. n |->
                  a.y[IF Len(a.y) = 1 THEN 1 ELSE i] * b.den
                  + b.y[IF Len(b.y) = 1 THEN 1 ELSE i] * a.den],
         den |-> a.den * b.den]

Vec(l) == [y |-> l.data[2], den |-> l.den]

\* 0 * e.data[1]
ZeroVec(l) == [y |-> [i \in DOMAIN l.data[2] |-> 0], den |-> l.den]

\* newsp_y = newsp_y + e.data[1] for the objects ids, from position i on
RECURSIVE SumLoop(_, _, _, _)
SumLoop(h, ids, acc, i) ==
    IF i > Len(ids) THEN [sum |-> acc, status |-> "ok"]
    ELSE IF ~Broadcasts(acc, Vec(h[ids[i]])) THEN [sum |-> acc, status |-> "raise"]
    ELSE SumLoop(h, ids, VecAdd(acc, Vec(h[ids[i]])), i + 1)

\* Mapping.select_sum_all: [x of the first element, sum of the y of all elements]
Mapping_select_sum_all(h, els) ==
    IF els = <<>> THEN [status |-> "raise", x |-> <<>>, y |-> <<>>, den |-> 1]
    ELSE LET r == SumLoop(h, els, ZeroVec(h[els[1]]), 1)
         IN  [status |-> r.status, x |-> h[els[1]].data[1],
              y |-> r.sum.y, den |-> r.sum.den]

\* the elements a list of coordinates selects; an index outside elements raises
Selected(els, pix, select_list) ==
    [i \in DOMAIN select_list |-> Mapping_coord_to_ind(pix, select_list[i]) + 1]

\* Mapping.select_sum_by_list: [x of the first selected element,
\* sum of the y of the selected elements / len(select_list)]
Mapping_select_sum_by_list(h, els, pix, select_list) ==
    IF \/ select_list = <<>>
       \/ pix = NoGrid
       \/ \E i \in DOMAIN select_list : Selected(els, pix, select_list)[i] > Len(els)
    THEN [status |-> "raise", x |-> <<>>, y |-> <<>>, den |-> 1]
    ELSE LET ids == [i \in DOMAIN select_list |->
                        els[Selected(els, pix, select_list)[i]]]
             r == SumLoop(h, ids, ZeroVec(h[ids[1]]), 1)
         IN  [status |-> r.status, x |-> h[ids[1]].data[1],
              y |-> r.sum.y, den |-> r.sum.den * Len(select_list)]

(***************************************************************************)
(* Records of the operation performed last                                 *)
(***************************************************************************)
Done(op, status, shift, arg, ret) ==
    [op |-> op, status |-> status, shift |-> shift, arg |-> arg, ret |-> ret,
     exact |-> TRUE]

Snapshot ==
    [heap |-> heap, elements |-> elements, heights |-> heights,
     grid |-> grid, last |-> last]

NoSnapshot ==
    [heap |-> <<>>, elements |-> <<>>, heights |-> <<>>, grid |-> NoGrid,
     last |-> Done("none", "ok", 0, <<>>, <<>>)]

(***************************************************************************)
(* A single spectrum: the caller builds one Line and works on it           *)
(***************************************************************************)
Axes == {Axis(start, n, 1) : start \in AxisStarts, n \in MinLen .. MaxLen}

Names == {<<"a">>, <<"b">>}

LineInit ==
    /\ \E x \in Axes : \E y \in [DOMAIN x -> Vals] :
          heap = <<Line(<<x, y>>, <<"a">>)>>
    /\ orig = heap
    /\ elements = <<>>
    /\ heights = <<>>
    /\ grid = NoGrid
    /\ last = Done("init", "ok", 0, <<>>, <<>>)
    /\ prev = NoSnapshot
    /\ steps = 0

\* s.align()
DoLineAlign ==
    /\ IF FindFails(heap[1])
       THEN /\ heap' = heap
            /\ last' = Done("align", "raise", 0, <<>>, <<>>)
       ELSE \E ext \in Exts :
              /\ heap' = [heap EXCEPT ![1] = Line_align(heap[1], ext)]
              /\ last' = [Done("align", "ok", Line_find_zlp_max(heap[1], ext).shift,
                               <<>>, <<>>)
                          EXCEPT !.exact = ExtFree(heap[1])]
    /\ prev' = Snapshot
    /\ UNCHANGED <<orig, elements, heights, grid, steps>>

SliceRanges == {<<-2, 5>>, <<2, 0>>, <<7, 9>>}

\* [min(x), max(x)] of the data of l, when there are data
FullRange(l) ==
    IF l.data[1] = <<>> THEN {}
    ELSE {<<SetMin(Range(l.data[1])), SetMax(Range(l.data[1]))>>}

\* s.data = s.slice_data(xrange)
DoLineSlice ==
    /\ \E xrange \in SliceRanges \cup FullRange(heap[1]) :
          LET d == Line_slice_data(heap[1], xrange)
          IN  /\ heap' = [heap EXCEPT ![1].data = d]
              /\ last' = Done("slice_data", "ok", 0, xrange, d)
    /\ prev' = Snapshot
    /\ UNCHANGED <<orig, elements, heights, grid, steps>>

LineNext == DoLineAlign

SpecLine == LineInit /\ [][LineNext]_vars

SliceNext == DoLineSlice

SpecSlice == LineInit /\ [][SliceNext]_vars

\* C11: a slice_data whose xrange holds no x of the spectrum ends with an error
\* and returns no empty arrays; a slice_data over [min(x), max(x)] returns the
\* x and y the spectrum had.
C11_SliceRangeChecked ==
    last.op = "slice_data"
        => LET old == prev.heap[1]
               lo == Min2(last.arg[1], last.arg[2])
               hi == Max2(last.arg[1], last.arg[2])
           IN  /\ (~ \E i \in DOMAIN old.data[1] : old.data[1][i] >= lo /\ old.data[1][i] <= hi)
                     => (last.status # "ok" /\ last.ret # <<<<>>, <<>>>>)
               /\ <<last.arg[1], last.arg[2]>> \in FullRange(old)
                     => last.ret = old.data

\* C2: whenever a Spectrum has been aligned twice in a row, the shift found by
\* the second align() is 0 (the first align() has put the ZLP maximum at x = 0).
\* Stated for the alignments that no extrapolated spline value takes part in,
\* where the model of the spline is exact.
C2_SecondShiftIsZero ==
    (/\ last.op = "align" /\ last.status = "ok" /\ last.exact
     /\ prev.last.op = "align" /\ prev.last.status = "ok" /\ prev.last.exact)
        => last.shift = 0

\* C12: after an align() that found the shift s, the spectrum has exactly the
\* x it had in [min(x), max(x) - s], as many y as x and no more samples than
\* before; for every retained x, x + s lies in [min(x), max(x)] of the data
\* before the call and the retained y is the sample of those data at x + s.
C12_AlignKeepsSampledRange ==
    (last.op = "align" /\ last.status = "ok")
        => LET old == prev.heap[1].data
               new == heap[1].data
               s == last.shift
               xmin == SetMin(Range(old[1]))
               xmax == SetMax(Range(old[1]))
           IN  /\ new[1] = Filter(old[1], [i \in DOMAIN old[1] |->
                                              old[1][i] >= xmin /\ old[1][i] <= xmax - s])
               /\ Len(new[1]) = Len(new[2])
               /\ Len(new[1]) <= Len(old[1])
               /\ \A i \in DOMAIN new[1] :
                     /\ new[1][i] + s >= xmin
                     /\ new[1][i] + s <= xmax
                     /\ \E j \in DOMAIN old[1] :
                           old[1][j] = new[1][i] + s /\ new[2][i] = old[2][j]

(***************************************************************************)
(* Denoising a single spectrum                                             *)
(***************************************************************************)
Spacings == {1, 2, 3}
Widths == {0, 1, 2, 3, 4, 6, 9}

DenoiseInit ==
    /\ \E n \in 1 .. MaxLen : \E step \in Spacings :
          \E y \in [1 .. n -> {0, 1}] :
             heap = <<Line(<<Axis(0, n, step), y>>, <<"a">>)>>
    /\ orig = heap
    /\ elements = <<>>
    /\ heights = <<>>
    /\ grid = NoGrid
    /\ last = Done("init", "ok", 0, <<>>, <<>>)
    /\ prev = NoSnapshot
    /\ steps = 0

\* s.denoise_LLR(dE): returns the denoised data, s itself is not changed
DoDenoise ==
    /\ \E dE \in Widths :
          IF DenoiseFails(heap[1], dE)
          THEN last' = Done("denoise_LLR", "raise", 0, dE, <<>>)
          ELSE last' = Done("denoise_LLR", "ok", 0, dE, Line_denoise_LLR(heap[1], dE))
    /\ prev' = Snapshot
    /\ UNCHANGED <<heap, orig, elements, heights, grid, steps>>

DenoiseNext == DoDenoise

SpecDenoise == DenoiseInit /\ [][DenoiseNext]_vars

\* C10: the block size of denoise_LLR is odd, and when it is not larger than
\* the data, the returned x and y have len(data) - (block size - 1) entries,
\* the x being the x of the data without block size // 2 samples at each end.
C10_DenoiseWindow ==
    (last.op = "denoise_LLR" /\ Len(heap[1].data[1]) >= 2)
        => LET n == Len(heap[1].data[1])
               nx == BlockSize(heap[1], last.arg)
           IN  /\ nx % 2 = 1
               /\ nx <= n
                     => /\ last.status = "ok"
                        /\ Len(last.ret[1]) = n - (nx - 1)
                        /\ Len(last.ret[2]) = n - (nx - 1)
                        /\ last.ret[1] = SubSeq(heap[1].data[1], (nx \div 2) + 1,
                                                n - (nx \div 2))

\* C10 witness: a width that is an even number of samples has been made odd
\* and the data have been denoised to fewer samples.
C10_Witness ==
    /\ last.op = "denoise_LLR" /\ last.status = "ok"
    /\ (last.arg \div (heap[1].data[1][2] - heap[1].data[1][1])) = 2
    /\ Len(last.ret[1]) = Len(heap[1].data[1]) - 2
    /\ Len(last.ret[1]) >= 2

(***************************************************************************)
(* A collection: the caller builds two Line objects (heap[1], heap[2]) and *)
(* a Mapping from a list of them, then works on the collection.            *)
(***************************************************************************)
Abs(v) == IF v < 0 THEN -v ELSE v

\* a zero-loss peak at position p: narrow (3 with shoulders of 1) or wide (3, 2, 1)
Narrow(x, p) == [i \in DOMAIN x |-> IF x[i] = p THEN 3 ELSE IF Abs(x[i] - p) = 1 THEN 1 ELSE 0]

Wide(x, p) == [i \in DOMAIN x |-> Max2(0, 3 - Abs(x[i] - p))]

Shapes(x) == {Narrow(x, -1), Narrow(x, 1), Wide(x, 0)}

CollAxis == Axis(-2, CollLen, 1)

CallerLists == {<<>>, <<1>>, <<1, 2>>, <<1, 1>>}

Callers == 1 .. 2

Ext0 == [lo |-> 0, hi |-> 0]

CollInit ==
    /\ \E xb \in {CollAxis, Axis(-1, CollLen - 1, 1)} :
       \E ya \in Shapes(CollAxis) : \E yb \in Shapes(xb) : \E nb \in Names :
       \E ele \in CallerLists :
          LET callers == <<Line(<<CollAxis, ya>>, <<"a">>), Line(<<xb, yb>>, nb)>>
          IN  /\ heap = callers \o DeepCopyObjs(callers, ele)
              /\ elements = DeepCopyIds(callers, ele)
    /\ orig = heap
    /\ heights = <<>>
    /\ grid = NoGrid
    /\ last = Done("init", "ok", 0, <<>>, <<>>)
    /\ prev = NoSnapshot
    /\ steps = 0

Step == /\ steps < MaxSteps
        /\ steps' = steps + 1
        /\ prev' = Snapshot
        /\ orig' = orig

\* lines.set_initial_elements(ele), ele a list of the caller's lines
SetInitialElements ==
    /\ Step
    /\ \E ele \in CallerLists \ {<<>>} :
          /\ heap' = heap \o DeepCopyObjs(heap, ele)
          /\ elements' = DeepCopyIds(heap, ele)
          /\ last' = Done("set_initial_elements", "ok", 0, ele, <<>>)
    /\ UNCHANGED <<heights, grid>>

\* lines.add_lines(new_lines), new_lines a list of the caller's lines
AddLines ==
    /\ Step
    /\ \E new_lines \in {<<1>>, <<2>>, <<1, 2>>} :
          /\ elements' = Lines_add_lines(elements, new_lines)
          /\ last' = Done("add_lines", "ok", 0, new_lines, <<>>)
    /\ UNCHANGED <<heap, heights, grid>>

\* lines.del_lines([line]), line one of the caller's lines or lines.elements[i]
DelLines ==
    /\ Step
    /\ \E id \in DOMAIN heap :
          /\ elements' = Lines_del_lines(elements, <<id>>)
          /\ last' = Done("del_lines", "ok", 0, <<id>>, <<>>)
    /\ UNCHANGED <<heap, heights, grid>>

CollRanges == {<<-1, 2>>, <<3, 0>>}

\* lines.slice_data(xrange)
SliceData ==
    /\ Step
    /\ \E xrange \in CollRanges :
          /\ heap' = Lines_slice_data(heap, elements, xrange, 1)
          /\ last' = Done("slice_data", "ok", 0, xrange, <<>>)
    /\ UNCHANGED <<elements, heights, grid>>

\* lines.align()
Align ==
    /\ Step
    /\ \E exts \in [DOMAIN elements -> Exts] :
       \E r \in {Lines_align(heap, heights, elements, exts)} :
          /\ heap' = r.heap
          /\ heights' = r.heights
          /\ last' = Done("align", r.status, 0, <<>>, AlignShifts(heap, elements, exts, 1))
    /\ UNCHANGED <<elements, grid>>

\* lines.normalize()
Normalize ==
    /\ Step
    /\ heap' = Lines_normalize(heap, elements, 1)
    /\ last' = Done("normalize", "ok", 0, <<>>, <<>>)
    /\ UNCHANGED <<elements, heights, grid>>

SubLists == {<<2>>, <<1, 2>>}

DisplayRanges == {<<0, 2>>}

\* the splines fitted by subtract: none unless the loop body is reached
ExtChoices(sub, els) ==
    IF Len(sub) = Len(els) /\ Len(sub) = 1
    THEN [DOMAIN els -> Exts]
    ELSE {[i \in DOMAIN els |-> Ext0]}

\* lines.subtract(sub, display_range), sub a list of the caller's lines
Subtract ==
    /\ Step
    /\ \E sub \in SubLists : \E display_range \in DisplayRanges :
       \E exts \in ExtChoices(sub, elements) : \E sexts \in ExtChoices(sub, elements) :
       \E r \in {Lines_subtract(heap, elements, sub, display_range, exts, sexts)} :
          /\ heap' = r.heap
          /\ last' = Done("subtract", r.status, 0, sub, <<>>)
    /\ UNCHANGED <<elements, heights, grid>>

Next ==
    \/ SetInitialElements
    \/ AddLines
    \/ DelLines
    \/ SliceData
    \/ Align
    \/ Normalize
    \/ Subtract

Spec == CollInit /\ [][Next]_vars

\* the slots of els hold pairwise different objects
DistinctSlots(els) == \A i, j \in DOMAIN els : i # j => els[i] # els[j]

\* two spectra have equal x, equal y and equal label
ValueEq(a, b) ==
    /\ a.data[1] = b.data[1]
    /\ Len(a.data[2]) = Len(b.data[2])
    /\ \A i \in DOMAIN a.data[2] : a.data[2][i] * b.den = b.data[2][i] * a.den
    /\ a.name = b.name

\* subtract has marked the label of the element in slot i
Processed(i) ==
    heap[elements[i]].name = prev.heap[elements[i]].name \o <<" Subtracted">>

\* C3: for a collection that is not empty, subtract accepts one substrate, or one
\* substrate per element, and then processes every element; it reports an
\* error, leaving every element as it was, only when the number of substrates
\* is neither 1 nor the number of elements.
C3_SubtractCounts ==
    (last.op = "subtract" /\ elements # <<>> /\ DistinctSlots(elements))
        => IF Len(last.arg) = 1 \/ Len(last.arg) = Len(elements)
           THEN /\ last.status # "error"
                /\ last.status = "ok" => \A i \in DOMAIN elements : Processed(i)
           ELSE last.status = "error" /\ heap = prev.heap

C5_HeightsParallel ==
    (heights # <<>> /\ DistinctSlots(elements) /\ last.status # "raise")
        => /\ Len(heights) = Len(elements)
           /\ \A i \in DOMAIN elements : heights[i] = heap[elements[i]].height

\* no two slots of els hold spectra of equal value
NoEqualPair(h, els) ==
    \A i, j \in DOMAIN els : i # j => ~ValueEq(h[els[i]], h[els[j]])

\* C6: add_lines on a collection without two equal spectra leaves it without
\* two equal spectra (a spectrum equal to an element is not added); del_lines
\* leaves the elements not equal to the given spectrum, in their order.
C6_SetLikeByValue ==
    /\ (last.op = "add_lines" /\ NoEqualPair(prev.heap, prev.elements))
          => NoEqualPair(heap, elements)
    /\ last.op = "del_lines"
          => elements = Filter(prev.elements,
                               [i \in DOMAIN prev.elements |->
                                   ~ValueEq(heap[prev.elements[i]], heap[last.arg[1]])])

\* C7: whatever the collection has been asked to do, the caller's own Line
\* objects have the x, y and label they were built with (the collection works
\* on deep copies).
C7_CallersUnchanged ==
    \A c \in Callers :
       /\ heap[c].data = orig[c].data
       /\ heap[c].den = orig[c].den
       /\ heap[c].name = orig[c].name

\* the collection is aligned and sliced only
AlignNext == Align \/ SliceData

SpecAlign == CollInit /\ [][AlignNext]_vars

\* the elements in the slots els all have the same x values
SameAxis(h, els) ==
    \A i, j \in DOMAIN els : h[els[i]].data[1] = h[els[j]].data[1]

\* C1: when Lines.align() returns on a non-empty collection whose elements had
\* the same x-axis before the call, all elements have element-wise equal x
\* arrays, whatever shifts the elements had.
C1_AlignGivesOneDomain ==
    (/\ last.op = "align" /\ last.status = "ok"
     /\ elements # <<>>
     /\ SameAxis(prev.heap, prev.elements))
        => SameAxis(heap, elements)

\* C1 witness: two distinct elements on one axis, the first shifted by a
\* positive and the second by a negative amount, have been aligned and the
\* common x-domain is shorter than the axis they started with.
C1_Witness ==
    /\ last.op = "align" /\ last.status = "ok"
    /\ Len(elements) = 2 /\ elements[1] # elements[2]
    /\ SameAxis(prev.heap, prev.elements)
    /\ last.ret[1] > 0 /\ last.ret[2] < 0
    /\ Len(heap[elements[1]].data[1]) < Len(prev.heap[elements[1]].data[1])
    /\ Len(heap[elements[1]].data[1]) >= MinLen

(***************************************************************************)
(* A spatial map: the caller builds a Mapping with no elements, ingests a  *)
(* cube and queries region sums; the inherited list operations are there.  *)
(***************************************************************************)
CubeLen == 2         \* channels per pixel of an ingested cube

\* the curves of a pixel: a peak in the first or in the last channel
Curves ==
    {[k \in 1 .. CubeLen |-> IF k = 1 THEN 1 ELSE 0],
     [k \in 1 .. CubeLen |-> IF k = CubeLen THEN 2 ELSE 0]}

RECURSIVE Flatten(_)
Flatten(rows) == IF rows = <<>> THEN <<>> ELSE Head(rows) \o Flatten(Tail(rows))

\* the 3-D arrays of shape (m, n, CubeLen), one curve per pixel
Cubes ==
    UNION {{[shape |-> <<m, n, CubeLen>>, flat |-> Flatten(c)] : c \in [1 .. (m * n) -> Curves]} :
              m \in 1 .. MaxDim, n \in 1 .. MaxDim}

\* 2-D arrays: one curve per row
Flat2D ==
    UNION {{[shape |-> <<m, CubeLen>>, flat |-> Flatten(c)] : c \in [1 .. m -> Curves]} :
              m \in 1 .. MaxDim}

MapInit ==
    /\ \E ya \in Shapes(CollAxis) :
          heap = <<Line(<<CollAxis, ya>>, <<"a">>), Line(<<CollAxis, ya>>, <<"b">>)>>
    /\ elements = <<>>
    /\ orig = heap
    /\ heights = <<>>
    /\ grid = NoGrid
    /\ last = Done("init", "ok", 0, <<>>, <<>>)
    /\ prev = NoSnapshot
    /\ steps = 0

\* m.set_initial_by_data(xdata, ydata) with a 3-D ydata
SetInitialByData ==
    /\ Step
    /\ \E ydata \in Cubes :
          /\ grid' = GridOf(Axis(0, CubeLen, 1), ydata)
          /\ heap' = heap \o DataList(Axis(0, CubeLen, 1), ydata)
          /\ elements' = [i \in 1 .. (ydata.shape[1] * ydata.shape[2]) |-> Len(heap) + i]
          /\ last' = Done("set_initial_by_data", "ok", 0, ydata, <<>>)
    /\ UNCHANGED heights

\* m.set_initial_by_data(xdata, ydata) with a ydata that is not 3-D: a message
\* is printed and nothing is set
SetInitialByBadData ==
    /\ Step
    /\ \E ydata \in Flat2D :
          /\ Len(ydata.shape) # 3
          /\ last' = Done("set_initial_by_data", "error", 0, ydata, <<>>)
    /\ UNCHANGED <<heap, elements, heights, grid>>

\* m.select_sum_all()
SelectSumAll ==
    /\ Step
    /\ \E r \in {Mapping_select_sum_all(heap, elements)} :
          last' = Done("select_sum_all", r.status, 0, <<>>, r)
    /\ UNCHANGED <<heap, elements, heights, grid>>

\* all the pixels of the grid, row by row
AllCells(pix) ==
    [i \in 1 .. (pix.pixel_num_x * pix.pixel_num_y) |->
        <<(i - 1) \div pix.pixel_num_y, (i - 1) % pix.pixel_num_y>>]

SelectLists ==
    {<<<<0, 0>>>>, <<<<1, 1>>>>, <<<<0, 1>>, <<1, 0>>>>}
    \cup (IF grid = NoGrid THEN {} ELSE {AllCells(grid)})

\* m.select_sum_by_list(select_list)
SelectSumByList ==
    /\ Step
    /\ \E select_list \in SelectLists :
       \E r \in {Mapping_select_sum_by_list(heap, elements, grid, select_list)} :
          last' = Done("select_sum_by_list", r.status, 0, select_list, r)
    /\ UNCHANGED <<heap, elements, heights, grid>>

MapNext ==
    \/ SetInitialByData
    \/ SetInitialByBadData
    \/ SelectSumAll
    \/ SelectSumByList
    \/ SetInitialElements
    \/ AddLines
    \/ DelLines

SpecMap == MapInit /\ [][MapNext]_vars

\* two region spectra are equal: same x, same rational y
SameCurve(a, b) ==
    /\ a.x = b.x
    /\ Len(a.y) = Len(b.y)
    /\ \A i \in DOMAIN a.y : a.y[i] * b.den = b.y[i] * a.den

\* C8: select_sum_all returns what select_sum_by_list returns for the list of
\* all pixels: the shared x and the mean of the y of all elements.
C8_SumAllIsRegionSum ==
    (/\ last.op = "select_sum_all" /\ last.status = "ok"
     /\ grid # NoGrid
     /\ Mapping_select_sum_by_list(heap, elements, grid, AllCells(grid)).status = "ok")
        => SameCurve(last.ret,
                     Mapping_select_sum_by_list(heap, elements, grid, AllCells(grid)))

\* C9: once a cube has been ingested, pixel_num_x * pixel_num_y is the number
\* of elements, and coord_to_ind maps every pixel to an element of its own,
\* which holds the channel data of that pixel.
C9_GridMatchesElements ==
    grid # NoGrid
        => /\ grid.pixel_num_x * grid.pixel_num_y = Len(elements)
           /\ DistinctSlots(elements)
           /\ \A r \in 0 .. (grid.pixel_num_x - 1) : \A c \in 0 .. (grid.pixel_num_y - 1) :
                 heap[elements[Mapping_coord_to_ind(grid, <<r, c>>) + 1]].data[2]
                    = ReshapeRow(grid.ydata, Mapping_coord_to_ind(grid, <<r, c>>) + 1)

====
